---- MODULE Spec2Model ----
(***************************************************************************)
(* find-dups (src/src/main.rs): a pool of worker threads walks the left    *)
(* and right directory trees through a crossbeam work channel whose        *)
(* Directory items each carry a clone of the channel's Sender, hashes the  *)
(* files, and sends WorkResults to the main thread, which buckets them by  *)
(* digest and splits the two buckets into left-only / both / right-only.   *)
(***************************************************************************)
EXTENDS Integers, Sequences, FiniteSets, TLC

VARIABLES
    entryKind,        \* the file system: what the entry "a/e" of directory "a" is
    args_left,        \* Args.left
    args_right,       \* Args.right
    mainpc,           \* position of the main thread
    seedIdx,          \* enqueue_initial_work_for_side: next root to resolve
    warnings,         \* roots skipped with a "WARN:" line on stderr
    queue,            \* messages in the work channel
    work_senders,     \* live Sender<Work> handles (the channel's sender count)
    work_receivers,   \* live Receiver<Work> handles
    results,          \* messages in the results channel
    results_senders,  \* live Sender<WorkResult> handles
    wpc,              \* position of each worker thread
    wtask,            \* the Work a worker thread is handling
    widx,             \* handle_dir_work: index of the next entry of read_dir
    left,             \* main: HashMap<Sha256Sum, Vec<PathBuf>> of the left side
    right,            \* main: HashMap<Sha256Sum, Vec<PathBuf>> of the right side
    diag,             \* error results printed by the collector loop (eprintln!)
    joinIdx,          \* main: next worker thread to join
    locations         \* the Locations returned by split_into_locations

vars == <<entryKind, args_left, args_right, mainpc, seedIdx, warnings, queue,
          work_senders, work_receivers, results, results_senders, wpc, wtask,
          widx, left, right, diag, joinIdx, locations>>

----------------------------------------------------------------------------
(* Bounds of the model *)

\* number of worker threads (thread::available_parallelism())
NumWorkers == 2

Workers == 1..NumWorkers

----------------------------------------------------------------------------
(* The file system.  Directory "a" lists the entries "a/e" and "a/y"; what  *)
(* "a/e" is varies; "b" is a regular file; the other roots are a symlink,   *)
(* a path that cannot be stat-ed and a fifo.                                *)

EntryKinds == {"file", "openerr", "readerr", "symlink", "other", "enumerr",
               "dir", "baddir"}

RootPaths == {"a", "b", "sym", "nostat", "fifo"}

NoPath == "-"

\* Path::is_symlink
is_symlink(p) ==
    \/ p = "sym"
    \/ p = "a/e" /\ entryKind = "symlink"

\* Path::metadata is Err
metadata_err(p) == p = "nostat"

\* Path::is_dir / Metadata::is_dir
is_dir(p) ==
    \/ p = "a"
    \/ p = "a/e" /\ entryKind \in {"dir", "baddir"}

\* Path::is_file / Metadata::is_file
is_file(p) ==
    \/ p \in {"b", "a/y", "a/e/z"}
    \/ p = "a/e" /\ entryKind \in {"file", "openerr", "readerr"}

\* a directory entry as the ReadDir iterator yields it: Err, or Ok with a path
OkEntry(p) == [err |-> FALSE, path |-> p]
ErrEntry == [err |-> TRUE, path |-> NoPath]

\* fs::read_dir is Err
read_dir_err(p) == p = "a/e" /\ entryKind = "baddir"

\* the entries fs::read_dir yields
read_dir(p) ==
    IF p = "a"
    THEN << IF entryKind = "enumerr" THEN ErrEntry ELSE OkEntry("a/e"),
            OkEntry("a/y") >>
    ELSE IF p = "a/e" /\ entryKind = "dir"
    THEN << OkEntry("a/e/z") >>
    ELSE << >>

\* fs::File::open is Err
open_err(p) == p = "a/e" /\ entryKind = "openerr"

\* io::copy is Err
copy_err(p) == p = "a/e" /\ entryKind = "readerr"

Digests == {1, 2}

\* the SHA-256 of the file's content: "a/e" is unique, the others are equal
Sha256(p) == IF p = "a/e" THEN 2 ELSE 1

----------------------------------------------------------------------------
(* PathLocation, Work, WorkResult *)

Sides == {"Left", "Right"}

new_left(p) == [side |-> "Left", path |-> p]

new_right(p) == [side |-> "Right", path |-> p]

\* new_same_side returning PathLocation::Left whatever `other` is
new_same_side_always_left(other, p) == [side |-> "Left", path |-> p]

new_same_side(other, p) ==
    IF other.side = "Left" THEN [side |-> "Left", path |-> p]
    ELSE [side |-> "Right", path |-> p]

WorkDirectory(loc) == [type |-> "Directory", path |-> loc]

WorkFile(loc) == [type |-> "File", path |-> loc]

NoWork == [type |-> "None", path |-> [side |-> "Left", path |-> NoPath]]

from_err(loc, e) == [path |-> loc, ok |-> FALSE, hash |-> 0, err |-> e]

from_hash(loc, h) == [path |-> loc, ok |-> TRUE, hash |-> h, err |-> ""]

----------------------------------------------------------------------------
(* Channels *)

\* number of Sender<Work> clones owned by the Directory items of a queue
RECURSIVE SendersIn(_)
SendersIn(q) ==
    IF q = << >> THEN 0
    ELSE (IF Head(q).type = "Directory" THEN 1 ELSE 0) + SendersIn(Tail(q))

\* Receiver::iter ending as soon as the channel is empty
Disconnected_when_empty(q, senders) == q = << >>

\* Receiver::iter ends: the channel is empty and every Sender is dropped
Disconnected(q, senders) == q = << >> /\ senders = 0

\* the work channel once `n` receivers are dropped: with the last receiver
\* gone the queued messages are discarded, and their Senders with them
QueueAfterDrop(n) == IF work_receivers - n = 0 THEN << >> ELSE queue

SendersAfterDrop(n, dropped) ==
    IF work_receivers - n = 0
    THEN work_senders - dropped - SendersIn(queue)
    ELSE work_senders - dropped

----------------------------------------------------------------------------
(* main: arguments and initial work *)

\* the lists of roots given for a side (-l and -r are required, and may be
\* repeated): every single root and, on the left, lists of two roots: a
\* directory or a file after a root that is skipped or fatal, a file given
\* twice, and a file and a directory with a file of the same content
OneRoot == {<< p >> : p \in RootPaths}

LeftArgLists ==
    OneRoot \cup {<< "sym", "a" >>, << "nostat", "b" >>, << "fifo", "a" >>,
                  << "b", "b" >>, << "b", "a" >>}

RightArgLists == OneRoot

\* the roots in the order enqueue_initial_work_from_args resolves them
NumRoots == Len(args_left) + Len(args_right)

RootLocation(i) ==
    IF i <= Len(args_left) THEN new_left(args_left[i])
    ELSE new_right(args_right[i - Len(args_left)])

NoLocations == [left |-> << >>, both |-> << >>, right |-> << >>, set |-> FALSE]

EmptyMap == [d \in {} |-> << >>]

Init ==
    /\ entryKind \in EntryKinds
    /\ args_left \in LeftArgLists
    /\ args_right \in RightArgLists
    /\ mainpc = "seed"
    /\ seedIdx = 1
    /\ warnings = << >>
    /\ queue = << >>
    /\ work_senders = 1
    /\ work_receivers = 1
    /\ results = << >>
    /\ results_senders = 1
    /\ wpc = [w \in Workers |-> "unstarted"]
    /\ wtask = [w \in Workers |-> NoWork]
    /\ widx = [w \in Workers |-> 0]
    /\ left = EmptyMap
    /\ right = EmptyMap
    /\ diag = << >>
    /\ joinIdx = 1
    /\ locations = NoLocations

\* one iteration of the loop of enqueue_initial_work_for_side
SeedRoot ==
    /\ mainpc = "seed"
    /\ seedIdx <= NumRoots
    /\ LET loc == RootLocation(seedIdx)
           p == loc.path
       IN  IF is_symlink(p) \/ metadata_err(p)
           THEN /\ warnings' = Append(warnings, p)
                /\ seedIdx' = seedIdx + 1
                /\ UNCHANGED <<mainpc, queue, work_senders, work_receivers,
                               results_senders>>
           ELSE IF is_dir(p)
           THEN /\ queue' = Append(queue, WorkDirectory(loc))
                /\ work_senders' = work_senders + 1
                /\ seedIdx' = seedIdx + 1
                /\ UNCHANGED <<mainpc, warnings, work_receivers, results_senders>>
           ELSE IF is_file(p)
           THEN /\ queue' = Append(queue, WorkFile(loc))
                /\ seedIdx' = seedIdx + 1
                /\ UNCHANGED <<mainpc, warnings, work_senders, work_receivers,
                               results_senders>>
           ELSE \* assert!(metadata.is_file()) fails: main unwinds, both
                \* channels are dropped with everything queued in them
                /\ mainpc' = "panicked"
                /\ queue' = << >>
                /\ work_senders' = 0
                /\ work_receivers' = 0
                /\ results_senders' = 0
                /\ UNCHANGED <<seedIdx, warnings>>
    /\ UNCHANGED <<entryKind, args_left, args_right, results, wpc, wtask, widx,
                   left, right, diag, joinIdx, locations>>

\* main going on to start the threads without drop(work_sender)
DropWorkSender_keeps_sender ==
    /\ mainpc = "seed"
    /\ seedIdx > NumRoots
    /\ mainpc' = "spawn"
    /\ UNCHANGED <<entryKind, args_left, args_right, seedIdx, warnings, queue,
                   work_senders, work_receivers, results, results_senders, wpc,
                   wtask, widx, left, right, diag, joinIdx, locations>>

\* drop(work_sender) once both sides are enqueued
DropWorkSender ==
    /\ mainpc = "seed"
    /\ seedIdx > NumRoots
    /\ work_senders' = work_senders - 1
    /\ mainpc' = "spawn"
    /\ UNCHANGED <<entryKind, args_left, args_right, seedIdx, warnings, queue,
                   work_receivers, results, results_senders, wpc, wtask, widx,
                   left, right, diag, joinIdx, locations>>

\* start_worker_threads: every thread gets a clone of the receiver and of the
\* results sender; the originals are dropped when the function returns
StartWorkerThreads ==
    /\ mainpc = "spawn"
    /\ wpc' = [w \in Workers |-> "idle"]
    /\ work_receivers' = work_receivers + NumWorkers - 1
    /\ results_senders' = results_senders + NumWorkers - 1
    /\ mainpc' = "collect"
    /\ UNCHANGED <<entryKind, args_left, args_right, seedIdx, warnings, queue,
                   work_senders, results, wtask, widx, left, right, diag,
                   joinIdx, locations>>

----------------------------------------------------------------------------
(* Worker threads *)

\* what a worker thread leaves unchanged
MainUnchanged ==
    UNCHANGED <<entryKind, args_left, args_right, mainpc, seedIdx, warnings,
                left, right, diag, joinIdx, locations>>

\* thread_work_receiver.iter() ends and the closure returns, dropping the
\* thread's receiver and results sender
WorkerExit(w) ==
    /\ wpc[w] = "idle"
    /\ Disconnected(queue, work_senders)
    /\ wpc' = [wpc EXCEPT ![w] = "done"]
    /\ work_receivers' = work_receivers - 1
    /\ results_senders' = results_senders - 1
    /\ UNCHANGED <<queue, work_senders, results, wtask, widx>>
    /\ MainUnchanged

fingerprint_one_file(loc) ==
    IF open_err(loc.path) THEN from_err(loc, "open")
    ELSE IF copy_err(loc.path) THEN from_err(loc, "read")
    ELSE from_hash(loc, Sha256(loc.path))

\* handle_file_work without the send of the result
HandleFileWork_drops_result(w) ==
    /\ wpc[w] = "idle"
    /\ queue # << >>
    /\ Head(queue).type = "File"
    /\ queue' = Tail(queue)
    /\ UNCHANGED <<work_senders, work_receivers, results, results_senders,
                   wpc, wtask, widx>>
    /\ MainUnchanged

\* thread_work_receiver.iter() yields a Work::File: handle_file_work
HandleFileWork(w) ==
    /\ wpc[w] = "idle"
    /\ queue # << >>
    /\ Head(queue).type = "File"
    /\ queue' = Tail(queue)
    /\ results' = Append(results, fingerprint_one_file(Head(queue).path))
    /\ UNCHANGED <<work_senders, work_receivers, results_senders, wpc, wtask,
                   widx>>
    /\ MainUnchanged

\* the Work's work_sender dropped as soon as the Work is received, before
\* handle_dir_work has sent the directory's entries
HandleDirWork_drops_sender_early(w) ==
    /\ wpc[w] = "idle"
    /\ queue # << >>
    /\ Head(queue).type = "Directory"
    /\ queue' = Tail(queue)
    /\ work_senders' = work_senders - 1
    /\ IF read_dir_err(Head(queue).path.path)
       THEN /\ results' = Append(results, from_err(Head(queue).path, "read_dir"))
            /\ UNCHANGED <<wpc, wtask, widx>>
       ELSE /\ wpc' = [wpc EXCEPT ![w] = "entries"]
            /\ wtask' = [wtask EXCEPT ![w] = Head(queue)]
            /\ widx' = [widx EXCEPT ![w] = 1]
            /\ UNCHANGED results
    /\ UNCHANGED <<work_receivers, results_senders>>
    /\ MainUnchanged

\* handle_dir_work returning on the Err of fs::read_dir with the Work's
\* work_sender kept alive
HandleDirWork_leaks_on_err(w) ==
    /\ wpc[w] = "idle"
    /\ queue # << >>
    /\ Head(queue).type = "Directory"
    /\ queue' = Tail(queue)
    /\ IF read_dir_err(Head(queue).path.path)
       THEN /\ results' = Append(results, from_err(Head(queue).path, "read_dir"))
            /\ UNCHANGED <<wpc, wtask, widx, work_senders>>
       ELSE /\ wpc' = [wpc EXCEPT ![w] = "entries"]
            /\ wtask' = [wtask EXCEPT ![w] = Head(queue)]
            /\ widx' = [widx EXCEPT ![w] = 1]
            /\ UNCHANGED <<results, work_senders>>
    /\ UNCHANGED <<work_receivers, results_senders>>
    /\ MainUnchanged

\* thread_work_receiver.iter() yields a Work::Directory: handle_dir_work up
\* to its loop.  When fs::read_dir is Err the result is sent, the function
\* returns and the Work's work_sender is dropped
HandleDirWork(w) ==
    /\ wpc[w] = "idle"
    /\ queue # << >>
    /\ Head(queue).type = "Directory"
    /\ queue' = Tail(queue)
    /\ IF read_dir_err(Head(queue).path.path)
       THEN /\ results' = Append(results, from_err(Head(queue).path, "read_dir"))
            /\ work_senders' = work_senders - 1
            /\ UNCHANGED <<wpc, wtask, widx>>
       ELSE /\ wpc' = [wpc EXCEPT ![w] = "entries"]
            /\ wtask' = [wtask EXCEPT ![w] = Head(queue)]
            /\ widx' = [widx EXCEPT ![w] = 1]
            /\ UNCHANGED <<results, work_senders>>
    /\ UNCHANGED <<work_receivers, results_senders>>
    /\ MainUnchanged

\* the loop of handle_dir_work with entry.unwrap() for the match on entry
EntryStep_unwraps_entry(dir, entry) ==
    IF entry.err
    THEN [do |-> "panic", result |-> from_err(dir, ""), work |-> NoWork]
    ELSE IF is_symlink(entry.path)
    THEN [do |-> "result",
          result |-> from_err(new_same_side(dir, entry.path), "symlink"),
          work |-> NoWork]
    ELSE IF is_dir(entry.path)
    THEN [do |-> "work", result |-> from_err(dir, ""),
          work |-> WorkDirectory(new_same_side(dir, entry.path))]
    ELSE IF is_file(entry.path)
    THEN [do |-> "work", result |-> from_err(dir, ""),
          work |-> WorkFile(new_same_side(dir, entry.path))]
    ELSE [do |-> "panic", result |-> from_err(dir, ""), work |-> NoWork]

\* the loop of handle_dir_work with the symlink's error result tagged with
\* the directory's path
EntryStep_tags_parent(dir, entry) ==
    IF entry.err
    THEN [do |-> "result", result |-> from_err(dir, "entry"), work |-> NoWork]
    ELSE IF is_symlink(entry.path)
    THEN [do |-> "result",
          result |-> from_err(dir, "symlink"),
          work |-> NoWork]
    ELSE IF is_dir(entry.path)
    THEN [do |-> "work", result |-> from_err(dir, ""),
          work |-> WorkDirectory(new_same_side(dir, entry.path))]
    ELSE IF is_file(entry.path)
    THEN [do |-> "work", result |-> from_err(dir, ""),
          work |-> WorkFile(new_same_side(dir, entry.path))]
    ELSE [do |-> "panic", result |-> from_err(dir, ""), work |-> NoWork]

\* the result of one iteration of the loop of handle_dir_work over `entry`
\* of the directory `dir`: an error result, a new Work, or a failed assert!
EntryStep(dir, entry) ==
    IF entry.err
    THEN [do |-> "result", result |-> from_err(dir, "entry"), work |-> NoWork]
    ELSE IF is_symlink(entry.path)
    THEN [do |-> "result",
          result |-> from_err(new_same_side(dir, entry.path), "symlink"),
          work |-> NoWork]
    ELSE IF is_dir(entry.path)
    THEN [do |-> "work", result |-> from_err(dir, ""),
          work |-> WorkDirectory(new_same_side(dir, entry.path))]
    ELSE IF is_file(entry.path)
    THEN [do |-> "work", result |-> from_err(dir, ""),
          work |-> WorkFile(new_same_side(dir, entry.path))]
    ELSE [do |-> "panic", result |-> from_err(dir, ""), work |-> NoWork]

\* the loop of handle_dir_work cloning work_sender for every Work it sends,
\* Work::File included
HandleDirWorkEntry_clones_for_file(w) ==
    /\ wpc[w] = "entries"
    /\ widx[w] <= Len(read_dir(wtask[w].path.path))
    /\ LET step == EntryStep(wtask[w].path, read_dir(wtask[w].path.path)[widx[w]])
       IN  CASE step.do = "result" ->
                  /\ results' = Append(results, step.result)
                  /\ widx' = [widx EXCEPT ![w] = widx[w] + 1]
                  /\ UNCHANGED <<queue, work_senders, work_receivers,
                                 results_senders, wpc, wtask>>
             [] step.do = "work" ->
                  /\ queue' = Append(queue, step.work)
                  /\ work_senders' = work_senders + 1
                  /\ widx' = [widx EXCEPT ![w] = widx[w] + 1]
                  /\ UNCHANGED <<work_receivers, results, results_senders,
                                 wpc, wtask>>
             [] step.do = "panic" ->
                  \* the thread unwinds: the Work's work_sender, the thread's
                  \* receiver and its results sender are dropped
                  /\ wpc' = [wpc EXCEPT ![w] = "panicked"]
                  /\ wtask' = [wtask EXCEPT ![w] = NoWork]
                  /\ queue' = QueueAfterDrop(1)
                  /\ work_senders' = SendersAfterDrop(1, 1)
                  /\ work_receivers' = work_receivers - 1
                  /\ results_senders' = results_senders - 1
                  /\ UNCHANGED <<results, widx>>
    /\ MainUnchanged

\* the loop of handle_dir_work with a failed assert! that leaves the thread's
\* results sender alive
HandleDirWorkEntry_panic_keeps_results_sender(w) ==
    /\ wpc[w] = "entries"
    /\ widx[w] <= Len(read_dir(wtask[w].path.path))
    /\ LET step == EntryStep(wtask[w].path, read_dir(wtask[w].path.path)[widx[w]])
       IN  CASE step.do = "result" ->
                  /\ results' = Append(results, step.result)
                  /\ widx' = [widx EXCEPT ![w] = widx[w] + 1]
                  /\ UNCHANGED <<queue, work_senders, work_receivers,
                                 results_senders, wpc, wtask>>
             [] step.do = "work" ->
                  /\ queue' = Append(queue, step.work)
                  /\ work_senders' = IF step.work.type = "Directory"
                                     THEN work_senders + 1 ELSE work_senders
                  /\ widx' = [widx EXCEPT ![w] = widx[w] + 1]
                  /\ UNCHANGED <<work_receivers, results, results_senders,
                                 wpc, wtask>>
             [] step.do = "panic" ->
                  \* the thread unwinds: the Work's work_sender, the thread's
                  \* receiver and its results sender are dropped
                  /\ wpc' = [wpc EXCEPT ![w] = "panicked"]
                  /\ wtask' = [wtask EXCEPT ![w] = NoWork]
                  /\ queue' = QueueAfterDrop(1)
                  /\ work_senders' = SendersAfterDrop(1, 1)
                  /\ work_receivers' = work_receivers - 1
                  /\ UNCHANGED <<results, results_senders, widx>>
    /\ MainUnchanged

\* one iteration of `for entry in read_dir`
HandleDirWorkEntry(w) ==
    /\ wpc[w] = "entries"
    /\ widx[w] <= Len(read_dir(wtask[w].path.path))
    /\ LET step == EntryStep(wtask[w].path, read_dir(wtask[w].path.path)[widx[w]])
       IN  CASE step.do = "result" ->
                  /\ results' = Append(results, step.result)
                  /\ widx' = [widx EXCEPT ![w] = widx[w] + 1]
                  /\ UNCHANGED <<queue, work_senders, work_receivers,
                                 results_senders, wpc, wtask>>
             [] step.do = "work" ->
                  /\ queue' = Append(queue, step.work)
                  /\ work_senders' = IF step.work.type = "Directory"
                                     THEN work_senders + 1 ELSE work_senders
                  /\ widx' = [widx EXCEPT ![w] = widx[w] + 1]
                  /\ UNCHANGED <<work_receivers, results, results_senders,
                                 wpc, wtask>>
             [] step.do = "panic" ->
                  \* the thread unwinds: the Work's work_sender, the thread's
                  \* receiver and its results sender are dropped
                  /\ wpc' = [wpc EXCEPT ![w] = "panicked"]
                  /\ wtask' = [wtask EXCEPT ![w] = NoWork]
                  /\ queue' = QueueAfterDrop(1)
                  /\ work_senders' = SendersAfterDrop(1, 1)
                  /\ work_receivers' = work_receivers - 1
                  /\ results_senders' = results_senders - 1
                  /\ UNCHANGED <<results, widx>>
    /\ MainUnchanged

\* handle_dir_work returning with the Work's work_sender kept alive
HandleDirWorkReturn_keeps_sender(w) ==
    /\ wpc[w] = "entries"
    /\ widx[w] > Len(read_dir(wtask[w].path.path))
    /\ wpc' = [wpc EXCEPT ![w] = "idle"]
    /\ wtask' = [wtask EXCEPT ![w] = NoWork]
    /\ UNCHANGED <<queue, work_senders, work_receivers, results,
                   results_senders, widx>>
    /\ MainUnchanged

\* read_dir is exhausted: handle_dir_work returns and the match arm drops
\* the Work's work_sender
HandleDirWorkReturn(w) ==
    /\ wpc[w] = "entries"
    /\ widx[w] > Len(read_dir(wtask[w].path.path))
    /\ work_senders' = work_senders - 1
    /\ wpc' = [wpc EXCEPT ![w] = "idle"]
    /\ wtask' = [wtask EXCEPT ![w] = NoWork]
    /\ UNCHANGED <<queue, work_receivers, results, results_senders, widx>>
    /\ MainUnchanged

WorkerNext(w) ==
    \/ WorkerExit(w)
    \/ HandleFileWork(w)
    \/ HandleDirWork(w)
    \/ HandleDirWorkEntry(w)
    \/ HandleDirWorkReturn(w)

----------------------------------------------------------------------------
(* main: collecting the results, joining the threads, splitting *)

\* map.insert(hash, vec![path]) for the entry API
add_to_result_hash_map_replaces(map, hash, path) ==
    [d \in DOMAIN map \cup {hash} |-> IF d = hash THEN << path >> ELSE map[d]]

\* map.entry(hash).or_default() with the push only for a key already there
add_to_result_hash_map_inserts_empty(map, hash, path) ==
    [d \in DOMAIN map \cup {hash} |->
        IF d \notin DOMAIN map THEN << >>
        ELSE IF d = hash THEN Append(map[d], path)
        ELSE map[d]]

add_to_result_hash_map(map, hash, path) ==
    [d \in DOMAIN map \cup {hash} |->
        IF d = hash
        THEN Append(IF d \in DOMAIN map THEN map[d] ELSE << >>, path)
        ELSE map[d]]

\* the collector loop without the is_err() check
CollectResult_buckets_errors ==
    /\ mainpc = "collect"
    /\ results # << >>
    /\ LET r == Head(results)
       IN  IF r.path.side = "Left"
           THEN /\ left' = add_to_result_hash_map(left, r.hash, r.path.path)
                /\ UNCHANGED <<right, diag>>
           ELSE /\ right' = add_to_result_hash_map(right, r.hash, r.path.path)
                /\ UNCHANGED <<left, diag>>
    /\ results' = Tail(results)
    /\ UNCHANGED <<entryKind, args_left, args_right, mainpc, seedIdx, warnings,
                   queue, work_senders, work_receivers, results_senders, wpc,
                   wtask, widx, joinIdx, locations>>

\* one iteration of `for work_result in results_receiver.iter()`
CollectResult ==
    /\ mainpc = "collect"
    /\ results # << >>
    /\ LET r == Head(results)
       IN  IF ~r.ok
           THEN /\ diag' = Append(diag, r)
                /\ UNCHANGED <<left, right>>
           ELSE IF r.path.side = "Left"
           THEN /\ left' = add_to_result_hash_map(left, r.hash, r.path.path)
                /\ UNCHANGED <<right, diag>>
           ELSE /\ right' = add_to_result_hash_map(right, r.hash, r.path.path)
                /\ UNCHANGED <<left, diag>>
    /\ results' = Tail(results)
    /\ UNCHANGED <<entryKind, args_left, args_right, mainpc, seedIdx, warnings,
                   queue, work_senders, work_receivers, results_senders, wpc,
                   wtask, widx, joinIdx, locations>>

\* the collector loop ending as soon as the results channel is empty
CollectEnd_when_empty ==
    /\ mainpc = "collect"
    /\ results = << >>
    /\ mainpc' = "join"
    /\ UNCHANGED <<entryKind, args_left, args_right, seedIdx, warnings, queue,
                   work_senders, work_receivers, results, results_senders, wpc,
                   wtask, widx, left, right, diag, joinIdx, locations>>

\* results_receiver.iter() ends
CollectEnd ==
    /\ mainpc = "collect"
    /\ Disconnected(results, results_senders)
    /\ mainpc' = "join"
    /\ UNCHANGED <<entryKind, args_left, args_right, seedIdx, warnings, queue,
                   work_senders, work_receivers, results, results_senders, wpc,
                   wtask, widx, left, right, diag, joinIdx, locations>>

\* the join loop with the Err of join() ignored
JoinWorker_ignores_err ==
    /\ mainpc = "join"
    /\ joinIdx <= NumWorkers
    /\ wpc[joinIdx] \in {"done", "panicked"}
    /\ joinIdx' = joinIdx + 1
    /\ UNCHANGED <<entryKind, args_left, args_right, mainpc, seedIdx, warnings,
                   queue, work_senders, work_receivers, results,
                   results_senders, wpc, wtask, widx, left, right, diag,
                   locations>>

\* worker_thread.join() of the next thread; a panic is raised again
JoinWorker ==
    /\ mainpc = "join"
    /\ joinIdx <= NumWorkers
    /\ wpc[joinIdx] \in {"done", "panicked"}
    /\ IF wpc[joinIdx] = "panicked"
       THEN mainpc' = "panicked" /\ UNCHANGED joinIdx
       ELSE joinIdx' = joinIdx + 1 /\ UNCHANGED mainpc
    /\ UNCHANGED <<entryKind, args_left, args_right, seedIdx, warnings, queue,
                   work_senders, work_receivers, results, results_senders, wpc,
                   wtask, widx, left, right, diag, locations>>

\* the orders in which a HashMap or HashSet may iterate over the keys S
Orders(S) ==
    {o \in [1..Cardinality(S) -> S] : \A i, j \in 1..Cardinality(S) :
                                          i # j => o[i] # o[j]}

RECURSIVE Flatten(_, _)
\* map.into_values().flatten().collect() for the iteration order `order`
Flatten(map, order) ==
    IF order = << >> THEN << >>
    ELSE map[Head(order)] \o Flatten(map, Tail(order))

keys_in_both(l, r) == {k \in DOMAIN l : k \in DOMAIN r}

\* split_into_locations without left.remove(k) and right.remove(k)
split_into_locations_keeps_both(l, r) ==
    LET both == keys_in_both(l, r)
    IN  { [left |-> Flatten(l, lo),
           both |-> [i \in 1..Len(bo) |-> << l[bo[i]], r[bo[i]] >>],
           right |-> Flatten(r, ro),
           set |-> TRUE] :
          bo \in Orders(both),
          lo \in Orders(DOMAIN l),
          ro \in Orders(DOMAIN r) }

\* split_into_locations pairing (from_right, from_left)
split_into_locations_swaps_pair(l, r) ==
    LET both == keys_in_both(l, r)
    IN  { [left |-> Flatten(l, lo),
           both |-> [i \in 1..Len(bo) |-> << r[bo[i]], l[bo[i]] >>],
           right |-> Flatten(r, ro),
           set |-> TRUE] :
          bo \in Orders(both),
          lo \in Orders(DOMAIN l \ both),
          ro \in Orders(DOMAIN r \ both) }

\* the Locations split_into_locations may return, one per iteration order
split_into_locations(l, r) ==
    LET both == keys_in_both(l, r)
    IN  { [left |-> Flatten(l, lo),
           both |-> [i \in 1..Len(bo) |-> << l[bo[i]], r[bo[i]] >>],
           right |-> Flatten(r, ro),
           set |-> TRUE] :
          bo \in Orders(both),
          lo \in Orders(DOMAIN l \ both),
          ro \in Orders(DOMAIN r \ both) }

\* let mut locations = split_into_locations(left, right), once every thread
\* is joined
Split ==
    /\ mainpc = "join"
    /\ joinIdx > NumWorkers
    /\ locations' \in split_into_locations(left, right)
    /\ mainpc' = "done"
    /\ UNCHANGED <<entryKind, args_left, args_right, seedIdx, warnings, queue,
                   work_senders, work_receivers, results, results_senders, wpc,
                   wtask, widx, left, right, diag, joinIdx>>

MainNext ==
    \/ SeedRoot
    \/ DropWorkSender
    \/ StartWorkerThreads
    \/ CollectResult
    \/ CollectEnd
    \/ JoinWorker
    \/ Split

Next ==
    \/ MainNext
    \/ \E w \in Workers : WorkerNext(w)

Spec == Init /\ [][Next]_vars

\* every thread that can take a step eventually takes one
FairSpec ==
    /\ Spec
    /\ WF_vars(MainNext)
    /\ \A w \in Workers : WF_vars(WorkerNext(w))

----------------------------------------------------------------------------
(* split_into_locations as a function of the collected results: the main   *)
(* thread with every worker thread gone and any results left to collect.   *)

\* most results left in the results channel
MaxResults == 4

SplitPaths == {"p1", "p2", "p3"}

SplitDigests == {1, 2, 3}

\* the paths of the results left in the channel, each with its side
SplitLocations ==
    UNION {[1..n -> [side : Sides, path : SplitPaths]] : n \in 0..MaxResults}

SplitInit ==
    /\ entryKind = "file"
    /\ args_left = << "a" >>
    /\ args_right = << "a" >>
    /\ mainpc = "collect"
    /\ seedIdx = NumRoots + 1
    /\ warnings = << >>
    /\ queue = << >>
    /\ work_senders = 0
    /\ work_receivers = 0
    /\ \E sha \in [SplitPaths -> SplitDigests], locs \in SplitLocations :
          results = [i \in DOMAIN locs |-> from_hash(locs[i], sha[locs[i].path])]
    /\ results_senders = 0
    /\ wpc = [w \in Workers |-> "done"]
    /\ wtask = [w \in Workers |-> NoWork]
    /\ widx = [w \in Workers |-> 0]
    /\ left = EmptyMap
    /\ right = EmptyMap
    /\ diag = << >>
    /\ joinIdx = 1
    /\ locations = NoLocations

SplitNext ==
    \/ CollectResult
    \/ CollectEnd
    \/ JoinWorker
    \/ Split

SplitSpec == SplitInit /\ [][SplitNext]_vars

----------------------------------------------------------------------------
(* Properties *)

Range(q) == {q[i] : i \in DOMAIN q}

RECURSIVE Count(_, _)
\* how many times x occurs in the sequence q
Count(q, x) ==
    IF q = << >> THEN 0
    ELSE (IF Head(q) = x THEN 1 ELSE 0) + Count(Tail(q), x)

RECURSIVE Sum(_, _)
\* the sum of f[x] over x in S
Sum(f, S) ==
    IF S = {} THEN 0
    ELSE LET x == CHOOSE y \in S : TRUE IN f[x] + Sum(f, S \ {x})

\* how many times the path p is held by the bucket `map`
CountInMap(map, p) == Sum([d \in DOMAIN map |-> Count(map[d], p)], DOMAIN map)

\* how many times the path p is held by half `h` of the pairs of `both`
CountInBoth(both, h, p) ==
    Sum([i \in DOMAIN both |-> Count(both[i][h], p)], DOMAIN both)

PathsOfMap(map) == UNION {Range(map[d]) : d \in DOMAIN map}

PathsOfBoth(both, h) == UNION {Range(both[i][h]) : i \in DOMAIN both}

\* the root is resolved to a Work: not a symlink, stat-ed, a directory or a file
Accepted(i) ==
    LET p == RootLocation(i).path
    IN  ~is_symlink(p) /\ ~metadata_err(p) /\ (is_dir(p) \/ is_file(p))

\* the root makes assert!(metadata.is_file()) fail
FatalRoot(i) ==
    LET p == RootLocation(i).path
    IN  ~is_symlink(p) /\ ~metadata_err(p) /\ ~is_dir(p) /\ ~is_file(p)

\* the entries of the directory p that are followed: neither Err nor symlinks
Followed(p) ==
    IF is_dir(p) /\ ~read_dir_err(p)
    THEN {e.path : e \in {x \in Range(read_dir(p)) : ~x.err /\ ~is_symlink(x.path)}}
    ELSE {}

RECURSIVE FilesUnder(_)
\* the regular files reached from the path p
FilesUnder(p) ==
    IF is_file(p) THEN {p} ELSE UNION {FilesUnder(e) : e \in Followed(p)}

RECURSIVE HasOtherUnder(_)
\* an entry that is neither symlink, directory nor file is reached from p
HasOtherUnder(p) ==
    \E e \in Followed(p) : (~is_dir(e) /\ ~is_file(e)) \/ HasOtherUnder(e)

AllFiles == {"a/e", "a/y", "a/e/z", "b"}

\* the number of accepted roots of the side from which the file f is reached
Multiplicity(side, f) ==
    Cardinality({i \in 1..NumRoots :
                    /\ RootLocation(i).side = side
                    /\ Accepted(i)
                    /\ f \in FilesUnder(RootLocation(i).path)})

\* the file is opened and read without error
Hashable(f) == is_file(f) /\ ~open_err(f) /\ ~copy_err(f)

\* the number of results sent so far for the location: those still in the
\* channel, those printed as errors and those put in the side's bucket
SentFor(loc) ==
    Cardinality({i \in DOMAIN results : results[i].path = loc})
    + Cardinality({i \in DOMAIN diag : diag[i].path = loc})
    + CountInMap(IF loc.side = "Left" THEN left ELSE right, loc.path)

\* an assert! fails in every run: on a root, or on an entry under a root
PanicExpected ==
    \/ \E i \in 1..NumRoots : FatalRoot(i)
    \/ \E i \in 1..NumRoots : Accepted(i) /\ HasOtherUnder(RootLocation(i).path)

\* every thread has ended and both channels are closed
Terminated ==
    /\ work_senders = 0
    /\ queue = << >>
    /\ \A w \in Workers : wpc[w] \in {"done", "panicked", "unstarted"}
    /\ results_senders = 0
    /\ results = << >>
    /\ mainpc \in {"done", "panicked"}

\* C1 as stated: under fair scheduling every run whose roots are all
\* resolved ends with no live Sender<Work>, the work channel drained, every
\* worker's loop ended, the results channel closed and the partition computed.
C1_AlwaysPartition ==
    (\A i \in 1..NumRoots : ~FatalRoot(i)) =>
        <>(/\ Terminated
           /\ \A w \in Workers : wpc[w] = "done"
           /\ mainpc = "done"
           /\ locations.set)

\* C1, amended: under fair scheduling every run ends with no live
\* Sender<Work>, the work channel drained, every started worker ended and the
\* results channel closed; the partition is computed unless a root or a
\* reached directory entry is neither symlink, directory nor regular file, in
\* which case the main thread ends with the panic of the failed assert!.
C1_Terminates ==
    <>(/\ Terminated
       /\ (mainpc = "done") = ~PanicExpected
       /\ (mainpc = "done") = locations.set
       /\ mainpc = "done" => \A w \in Workers : wpc[w] = "done")

\* C1's case: a run over a directory with a subdirectory has ended with the
\* partition computed
C1_Witness ==
    /\ Terminated
    /\ mainpc = "done"
    /\ locations.set
    /\ entryKind = "dir"
    /\ "a/e/z" \in PathsOfMap(left)

\* C2 as stated: a regular file reached from an accepted root never has more
\* than one result, whichever side it is tagged with, and has exactly one
\* once the run is over and the partition computed.
C2_ExactlyOneResult ==
    \A f \in {g \in AllFiles : is_file(g)} :
        Multiplicity("Left", f) + Multiplicity("Right", f) > 0 =>
            /\ SentFor(new_left(f)) + SentFor(new_right(f)) <= 1
            /\ mainpc = "done" =>
                  SentFor(new_left(f)) + SentFor(new_right(f)) = 1

\* C2, amended: for each side, a regular file never has more results tagged
\* with the side than there are accepted roots of that side it is reached
\* from, and it has exactly that many once the run is over and the partition
\* computed: one per accepted root, so two for a file under a root given for
\* both sides or twice.
C2_OneResultPerRoot ==
    \A f \in {g \in AllFiles : is_file(g)} : \A side \in Sides :
        /\ SentFor([side |-> side, path |-> f]) <= Multiplicity(side, f)
        /\ mainpc = "done" =>
              SentFor([side |-> side, path |-> f]) = Multiplicity(side, f)

\* C2's case: the run is over and a file under a root given for both sides
\* has one result per side
C2_Witness ==
    /\ mainpc = "done"
    /\ args_left = << "a" >>
    /\ args_right = << "a" >>
    /\ SentFor(new_left("a/y")) = 1
    /\ SentFor(new_right("a/y")) = 1

C4_ClassifiedByDigest ==
    locations.set =>
        /\ Len(locations.both) = Cardinality(DOMAIN left \cap DOMAIN right)
        /\ \A d \in DOMAIN left \cap DOMAIN right :
              \E i \in DOMAIN locations.both :
                  locations.both[i] = << left[d], right[d] >>
        /\ Range(locations.left)
              = UNION {Range(left[d]) : d \in DOMAIN left \ DOMAIN right}
        /\ Range(locations.right)
              = UNION {Range(right[d]) : d \in DOMAIN right \ DOMAIN left}

\* C4's case: a split of buckets with a shared digest, a left-only digest and
\* a list of two paths
C4_Witness ==
    /\ locations.set
    /\ \E d \in DOMAIN left \cap DOMAIN right : Len(right[d]) = 2
    /\ DOMAIN left \ DOMAIN right # {}

\* the bucket of a side
Bucket(side) == IF side = "Left" THEN left ELSE right

\* the paths locations gives to a side: its own list and its halves of both
LocatedPaths(side) ==
    IF side = "Left"
    THEN Range(locations.left) \cup PathsOfBoth(locations.both, 1)
    ELSE Range(locations.right) \cup PathsOfBoth(locations.both, 2)

\* C5: a path of a bucket or of locations is a file that was opened and read
\* without error, held under its digest; the location of a printed error
\* result is in neither; and once the partition is computed every such file
\* is in its side's bucket once per accepted root it is reached from,
\* whatever errors its siblings gave.
C5_ErrorsNeverBucketed ==
    /\ \A side \in Sides : \A d \in DOMAIN Bucket(side) :
          \A p \in Range(Bucket(side)[d]) : Hashable(p) /\ d = Sha256(p)
    /\ \A side \in Sides : \A p \in LocatedPaths(side) : Hashable(p)
    /\ \A i \in DOMAIN diag :
          /\ ~diag[i].ok
          /\ diag[i].path.path \notin PathsOfMap(Bucket(diag[i].path.side))
          /\ diag[i].path.path \notin LocatedPaths(diag[i].path.side)
    /\ mainpc = "done" =>
          \A side \in Sides : \A f \in {g \in AllFiles : Hashable(g)} :
              /\ CountInMap(Bucket(side), f) = Multiplicity(side, f)
              /\ Multiplicity(side, f) > 0 => f \in LocatedPaths(side)

\* C5's case: the partition is computed after a file of the left directory
\* could not be opened, and its sibling is in the left bucket
C5_Witness ==
    /\ mainpc = "done"
    /\ entryKind = "openerr"
    /\ \E i \in DOMAIN diag : diag[i].path = new_left("a/e") /\ diag[i].err = "open"
    /\ "a/y" \in PathsOfMap(left)

\* the files of a side that are hashed in a run that ends without a panic
HashedFiles(side) ==
    {f \in AllFiles : Hashable(f) /\ Multiplicity(side, f) > 0}

\* C6: whether the partition is computed, and which paths are in each of its
\* parts, is a function of the file system and the roots alone: it is
\* computed iff no assert! can fail, locations.left holds the hashed left
\* files whose digest no hashed right file has, locations.right the converse,
\* and locations.both pairs, per shared digest, the left and the right files.
C6_ScheduleIndependent ==
    /\ mainpc = "panicked" => PanicExpected
    /\ mainpc = "done" =>
          /\ ~PanicExpected
          /\ Range(locations.left)
                = {f \in HashedFiles("Left") :
                      \A g \in HashedFiles("Right") : Sha256(g) # Sha256(f)}
          /\ Range(locations.right)
                = {g \in HashedFiles("Right") :
                      \A f \in HashedFiles("Left") : Sha256(f) # Sha256(g)}
          /\ {<< Range(locations.both[i][1]), Range(locations.both[i][2]) >> :
                 i \in DOMAIN locations.both}
                = {<< {f \in HashedFiles("Left") : Sha256(f) = d},
                      {g \in HashedFiles("Right") : Sha256(g) = d} >> :
                   d \in {Sha256(f) : f \in HashedFiles("Left")}
                         \cap {Sha256(g) : g \in HashedFiles("Right")}}

\* C6's case: the partition of a left directory against a right file is
\* computed, with a left-only file and a pair in both
C6_Witness ==
    /\ mainpc = "done"
    /\ args_left = << "a" >>
    /\ locations.left # << >>
    /\ locations.both # << >>

\* C7: when a worker has left its loop the work channel is empty and no
\* Sender<Work> is alive: none counted by the channel, none in a queued
\* Directory, none held by a worker in handle_dir_work or by main; and an idle
\* worker can take no step while the channel is empty and a Sender is alive.
C7_ExitOnlyWhenClosed ==
    \A w \in Workers :
        /\ wpc[w] = "done" =>
              /\ queue = << >>
              /\ work_senders = 0
              /\ \A v \in Workers : wpc[v] # "entries"
              /\ mainpc \notin {"seed", "spawn"}
        /\ (wpc[w] = "idle" /\ queue = << >> /\ work_senders > 0) =>
              ~ENABLED WorkerNext(w)

\* C7's case: a worker has left its loop after results were sent
C7_Witness ==
    /\ \E w \in Workers : wpc[w] = "done"
    /\ \E w \in Workers : wpc[w] = "idle"
    /\ results # << >>

\* C8: while a worker has panicked no partition is computed, the join loop
\* has passed only workers that returned, and the main thread ends (with the
\* panic raised again) at the first panicked worker it joins.
C8_PanicNotSwallowed ==
    /\ (\E w \in Workers : wpc[w] = "panicked") =>
          mainpc # "done" /\ ~locations.set
    /\ mainpc = "join" => \A w \in 1..(joinIdx - 1) : wpc[w] = "done"
    /\ locations.set => \A w \in Workers : wpc[w] = "done"
    /\ (mainpc = "panicked" /\ seedIdx > NumRoots) =>
          wpc[joinIdx] = "panicked"

\* C8's case: the main thread has raised again the panic of the second
\* worker, after joining the first, which returned
C8_Witness ==
    /\ mainpc = "panicked"
    /\ joinIdx = 2
    /\ wpc[1] = "done"
    /\ wpc[2] = "panicked"

\* the number of roots that are a symlink, cannot be stat-ed or are neither
\* a directory nor a file
RECURSIVE SkippedRoots(_)
SkippedRoots(n) ==
    IF n = 0 THEN << >>
    ELSE SkippedRoots(n - 1)
         \o (IF Accepted(n) THEN << >> ELSE << RootLocation(n).path >>)

\* C9: resolving the roots never ends the main thread: once the loop is left
\* every root is resolved, every root that is a symlink, cannot be stat-ed or
\* is neither file nor directory was skipped with a warning, and every other
\* root has its Work in the channel.
C9_RootResolutionNeverFatal ==
    /\ mainpc = "panicked" => seedIdx > NumRoots
    /\ mainpc = "spawn" =>
          /\ warnings = SkippedRoots(NumRoots)
          /\ Len(queue) = Cardinality({i \in 1..NumRoots : Accepted(i)})

\* the worker w is at an entry of its directory of the given kinds
AtEntry(w, kinds) ==
    /\ wpc[w] = "entries"
    /\ widx[w] <= Len(read_dir(wtask[w].path.path))
    /\ LET e == read_dir(wtask[w].path.path)[widx[w]]
       IN  \/ "err" \in kinds /\ e.err
           \/ "symlink" \in kinds /\ ~e.err /\ is_symlink(e.path)
           \/ "other" \in kinds /\ ~e.err /\ ~is_symlink(e.path)
                               /\ ~is_dir(e.path) /\ ~is_file(e.path)

\* a worker takes the Work at the head of the channel and stays in its loop
TakesHead ==
    /\ queue # << >>
    /\ queue' = Tail(queue)
    /\ wpc' = wpc
    /\ mainpc' = mainpc

\* C10: a step in which fs::read_dir fails, an entry fails to enumerate, an
\* entry is a symlink, or a file fails to open or to be read sends one error
\* result and leaves the worker in its loop: after the read_dir failure the
\* directory's Sender is dropped and the worker is idle again; after an entry
\* failure the worker goes on with the next entry; a worker comes back from
\* handle_dir_work with the directory's Sender dropped; and a worker panics
\* only at an entry that is neither symlink, directory nor file.
C10_FailuresAreData ==
    [][/\ (TakesHead /\ Head(queue).type = "Directory") =>
              /\ read_dir_err(Head(queue).path.path)
              /\ results' = Append(results, from_err(Head(queue).path, "read_dir"))
              /\ work_senders' = work_senders - 1
       /\ (TakesHead /\ Head(queue).type = "File"
             /\ ~Hashable(Head(queue).path.path)) =>
              /\ Len(results') = Len(results) + 1
              /\ ~results'[Len(results')].ok
              /\ results'[Len(results')].path = Head(queue).path
       /\ \A w \in Workers :
             /\ (AtEntry(w, {"err", "symlink"}) /\ widx'[w] # widx[w]) =>
                    /\ Len(results') = Len(results) + 1
                    /\ ~results'[Len(results')].ok
                    /\ results'[Len(results')].path.side = wtask[w].path.side
                    /\ wpc'[w] = "entries"
                    /\ widx'[w] = widx[w] + 1
             /\ (wpc[w] = "entries" /\ wpc'[w] = "idle") =>
                    work_senders' = work_senders - 1
             /\ (wpc[w] # "panicked" /\ wpc'[w] = "panicked") =>
                    AtEntry(w, {"other"})
      ]_vars

\* C10's case: every worker has left its loop normally after fs::read_dir
\* failed on a subdirectory and the error was printed
C10_Witness ==
    /\ \A w \in Workers : wpc[w] = "done"
    /\ \E i \in DOMAIN diag : diag[i].err = "read_dir"
    /\ work_senders = 0

\* the seed batch is being sent, or one of its Directory items is still in
\* the channel
SeedBatchUndrained ==
    \/ mainpc = "seed"
    \/ \E i \in DOMAIN queue : \E n \in 1..NumRoots :
          queue[i] = WorkDirectory(RootLocation(n))

\* a worker is in the loop of handle_dir_work
Expanding == \E w \in Workers : wpc[w] = "entries"

\* C11 as stated: a Sender<Work> is alive iff a worker is expanding a
\* directory, or the seed batch is being sent or a Directory of it is still
\* in the channel.
C11_LiveIffExpanding ==
    work_senders > 0 <=> (SeedBatchUndrained \/ Expanding)

\* C11, amended: a Sender<Work> is alive iff main is still seeding, or a
\* Directory is in the channel (its expansion not started yet, whether it
\* came from a root or from a parent directory), or a worker is expanding one.
C11_LiveIffUnfinished ==
    work_senders > 0 <=> (mainpc = "seed" \/ SendersIn(queue) > 0 \/ Expanding)

\* C11's case: the subdirectory "a/e" waits in the channel with its Sender
\* after its parent's expansion is over, and no worker is expanding
C11_Witness ==
    /\ mainpc = "collect"
    /\ ~Expanding
    /\ \E i \in DOMAIN queue : queue[i] = WorkDirectory(new_left("a/e"))
    /\ work_senders = 1

\* the number of workers in the loop of handle_dir_work
NumExpanding == Cardinality({w \in Workers : wpc[w] = "entries"})

\* the Directory items created and not finished: queued or being expanded
Unfinished == SendersIn(queue) + NumExpanding

\* C12: once main has dropped its Sender<Work>, the number of live senders
\* is the number of Directory items queued or being expanded; the sender of
\* a Directory is dropped in the step that ends its expansion (read_dir
\* failed, the entries are exhausted, or the worker panics), and a worker
\* drops a sender in no other step.
C12_OneSenderPerDirectory ==
    /\ [](mainpc # "seed" => work_senders = Unfinished)
    /\ [][/\ (TakesHead /\ Head(queue).type = "Directory") =>
                 work_senders' = work_senders - 1
          /\ \A w \in Workers :
                (wpc[w] = "entries" /\ wpc'[w] # "entries") =>
                    work_senders' + SendersIn(queue) - SendersIn(queue')
                        = work_senders - 1
          /\ (mainpc' = mainpc /\ work_senders' < work_senders) =>
                \/ TakesHead /\ Head(queue).type = "Directory"
                \/ \E w \in Workers : wpc[w] = "entries" /\ wpc'[w] # "entries"
         ]_vars

\* C12's case: two workers are expanding, one the root "a" and one its
\* subdirectory, and two senders are alive
C12_Witness ==
    /\ mainpc = "collect"
    /\ wpc = [w \in Workers |-> "entries"]
    /\ \E w \in Workers : wtask[w].path.path = "a/e"
    /\ work_senders = 2

\* the entries of the directory the worker w is expanding
EntriesOf(w) == read_dir(wtask[w].path.path)

\* the worker w sends the Work of the entry it is at
SendsChild(w) ==
    /\ wpc[w] = "entries"
    /\ widx[w] <= Len(EntriesOf(w))
    /\ widx'[w] = widx[w] + 1
    /\ queue' = Append(queue, EntryStep(wtask[w].path, EntriesOf(w)[widx[w]]).work)

\* C13: while a worker expands a directory a Sender<Work> is alive, so the
\* work channel is not closed and no worker has left its loop; a Work is
\* added to the channel by a worker only as the child of the directory it is
\* expanding, with that directory's Sender alive before and after the send;
\* and a worker returns from handle_dir_work, dropping the Sender, only once
\* every entry of the directory has been dealt with.
C13_SenderOutlivesChildren ==
    /\ [](\A w \in Workers : wpc[w] = "entries" =>
              /\ work_senders >= 1
              /\ ~Disconnected(queue, work_senders)
              /\ \A v \in Workers : wpc[v] # "done" /\ ~ENABLED WorkerExit(v))
    /\ [][/\ (mainpc # "seed" /\ Len(queue') > Len(queue)) =>
                 /\ \E w \in Workers : SendsChild(w)
                 /\ work_senders >= 1
                 /\ work_senders' >= 1
          /\ \A w \in Workers :
                (wpc[w] = "entries" /\ wpc'[w] = "idle") =>
                    /\ widx[w] > Len(EntriesOf(w))
                    /\ queue' = queue
         ]_vars

\* C13's case: the channel is empty and the other worker idle while a worker
\* has the last entry of the root directory still to send
C13_Witness ==
    /\ queue = << >>
    /\ work_senders = 1
    /\ \E w \in Workers :
          /\ wpc[w] = "entries"
          /\ wtask[w].path.path = "a"
          /\ widx[w] = Len(EntriesOf(w))
          /\ \A v \in Workers \ {w} : wpc[v] = "idle"

\* C14: a worker thread runs only after every root is resolved and main has
\* dropped its Sender<Work>; split_into_locations is called once, in a state
\* where every worker is joined after returning, the results channel is
\* closed and empty, and each bucket holds every hashed file of its side once
\* per root; after the call neither the buckets nor the Locations change.
C14_PhaseOrdering ==
    /\ []((\E w \in Workers : wpc[w] # "unstarted") =>
              /\ mainpc \notin {"seed", "spawn"}
              /\ seedIdx > NumRoots)
    /\ [](mainpc = "spawn" =>
              /\ seedIdx > NumRoots
              /\ work_senders = SendersIn(queue))
    /\ [](locations.set =>
              /\ mainpc = "done"
              /\ joinIdx > NumWorkers
              /\ \A w \in Workers : wpc[w] = "done"
              /\ Disconnected(results, results_senders)
              /\ \A side \in Sides : \A f \in {g \in AllFiles : Hashable(g)} :
                    CountInMap(Bucket(side), f) = Multiplicity(side, f))
    /\ [][/\ locations' # locations =>
                 /\ ~locations.set
                 /\ locations'.set
                 /\ mainpc = "join"
                 /\ left' = left /\ right' = right
          /\ locations.set =>
                 locations' = locations /\ left' = left /\ right' = right
         ]_vars

\* C14's case: the partition is computed after both workers were joined and
\* every result of a run over two left roots and a right directory collected
C14_Witness ==
    /\ locations.set
    /\ joinIdx = NumWorkers + 1
    /\ args_left = << "b", "a" >>
    /\ args_right = << "a" >>
    /\ Cardinality(PathsOfMap(left)) = 3

RECURSIVE DirsBelow(_)
\* the number of directories below the directory p that its expansion, and
\* theirs, will send as Work::Directory
DirsBelow(p) ==
    Sum([e \in Followed(p) |-> IF is_dir(e) THEN 1 + DirsBelow(e) ELSE 0],
        Followed(p))

\* the same for the entries the worker w has still to deal with
DirsAhead(w) ==
    LET rest == {EntriesOf(w)[i].path :
                    i \in {j \in widx[w]..Len(EntriesOf(w)) :
                              ~EntriesOf(w)[j].err}}
    IN  Sum([e \in rest |-> IF ~is_symlink(e) /\ is_dir(e)
                            THEN 1 + DirsBelow(e) ELSE 0], rest)

\* the live senders and the senders still to be cloned
SendersToCome ==
    work_senders
    + Sum([i \in DOMAIN queue |-> IF queue[i].type = "Directory"
                                  THEN DirsBelow(queue[i].path.path) ELSE 0],
          DOMAIN queue)
    + Sum([w \in Workers |-> IF wpc[w] = "entries" THEN DirsAhead(w) ELSE 0],
          Workers)

\* C15 as stated: once main has dropped its Sender<Work>, no step increases
\* the number of live senders, and the number reaches zero.
C15_NeverIncreases ==
    /\ [][mainpc # "seed" => work_senders' <= work_senders]_vars
    /\ <>[](work_senders = 0)

\* C15, amended: the number of live senders reaches zero and stays there;
\* once main has dropped its own, a step increases it only by one, when a
\* worker sends the Work::Directory of a subdirectory with a clone of the
\* sender; the live senders and the subdirectories still to be sent never
\* increase together, and decrease with every sender dropped.
C15_ReachesZero ==
    /\ <>[](work_senders = 0)
    /\ [][mainpc # "seed" =>
             /\ work_senders' > work_senders =>
                   /\ work_senders' = work_senders + 1
                   /\ \E w \in Workers :
                         /\ SendsChild(w)
                         /\ queue'[Len(queue')].type = "Directory"
             /\ SendersToCome' <= SendersToCome
             /\ work_senders' < work_senders => SendersToCome' < SendersToCome
         ]_vars

\* C15's case: with the one root directory "a" seeded and main's sender
\* dropped, two senders are alive: the subdirectory's was cloned by a worker
C15_Witness ==
    /\ mainpc = "collect"
    /\ args_left = << "a" >>
    /\ args_right = << "b" >>
    /\ work_senders = 2

\* the number of accepted roots of the side that are the directory "a"
RootsAt(side) ==
    Cardinality({i \in 1..NumRoots : RootLocation(i) = [side |-> side, path |-> "a"]})

\* the error results printed so far for the location with the given error
Printed(loc, e) ==
    Cardinality({i \in DOMAIN diag : diag[i].path = loc /\ diag[i].err = e})

\* C16: the step of handle_dir_work at an entry that is a symlink sends one
\* error result with the entry's path and the directory's side, sends no Work
\* and goes on to the next entry; at an entry that failed to enumerate it
\* sends one error result with the directory's location and goes on; no Work
\* and no digest ever exists for a symlink; and when the run is over each
\* such entry has one printed error per expansion of its directory, and the
\* entry after it was hashed.
C16_EntryErrorsContinue ==
    /\ [](/\ \A i \in DOMAIN queue : ~is_symlink(queue[i].path.path)
          /\ \A w \in Workers : ~is_symlink(wtask[w].path.path)
          /\ \A i \in DOMAIN results :
                is_symlink(results[i].path.path) => ~results[i].ok
          /\ \A side \in Sides : \A p \in PathsOfMap(Bucket(side)) :
                ~is_symlink(p))
    /\ [](mainpc = "done" => \A side \in Sides :
              /\ entryKind = "symlink" =>
                    /\ Printed([side |-> side, path |-> "a/e"], "symlink")
                          = RootsAt(side)
                    /\ SentFor([side |-> side, path |-> "a/e"]) = RootsAt(side)
              /\ entryKind = "enumerr" =>
                    /\ Printed([side |-> side, path |-> "a"], "entry")
                          = RootsAt(side)
                    /\ SentFor([side |-> side, path |-> "a"]) = RootsAt(side)
              /\ entryKind \in {"symlink", "enumerr"} =>
                    CountInMap(Bucket(side), "a/y") = RootsAt(side))
    /\ [][\A w \in Workers :
            /\ (AtEntry(w, {"symlink"}) /\ widx'[w] # widx[w]) =>
                  /\ results' = Append(results,
                         from_err([side |-> wtask[w].path.side,
                                   path |-> EntriesOf(w)[widx[w]].path],
                                  "symlink"))
                  /\ queue' = queue
                  /\ work_senders' = work_senders
                  /\ wpc'[w] = "entries" /\ widx'[w] = widx[w] + 1
            /\ (AtEntry(w, {"err"}) /\ widx'[w] # widx[w]) =>
                  /\ results' = Append(results, from_err(wtask[w].path, "entry"))
                  /\ queue' = queue
                  /\ work_senders' = work_senders
                  /\ wpc'[w] = "entries" /\ widx'[w] = widx[w] + 1
            /\ AtEntry(w, {"symlink", "err"}) => wpc'[w] = "entries"
         ]_vars

\* C16's case: the run over the left directory is over, the error of its
\* symlink entry was printed with the entry's path and the entry after the
\* symlink is in the left bucket
C16_Witness ==
    /\ mainpc = "done"
    /\ entryKind = "symlink"
    /\ Printed(new_left("a/e"), "symlink") = 1
    /\ CountInMap(left, "a/y") = 1

\* C17: every Vec of the left and of the right bucket has at least one path,
\* so both Vecs of every pair of locations.both have one, and lpaths[0], the
\* key main sorts locations.both by, exists and is a path of the left bucket.
C17_BucketListsNonEmpty ==
    /\ \A side \in Sides : \A d \in DOMAIN Bucket(side) :
          Len(Bucket(side)[d]) >= 1
    /\ \A i \in DOMAIN locations.both :
          /\ Len(locations.both[i][1]) >= 1
          /\ Len(locations.both[i][2]) >= 1
          /\ locations.both[i][1][1] \in PathsOfMap(left)

\* C17's case: locations.both has two pairs to compare by their first left
\* path
C17_Witness ==
    /\ locations.set
    /\ Len(locations.both) >= 2

\* results_receiver, owned by main, is alive until main ends
ResultsReceiverAlive == mainpc \notin {"done", "panicked"}

\* the worker threads that have not left their closure
LiveWorkers == {w \in Workers : wpc[w] \in {"idle", "entries"}}

\* C18: while main is seeding the work channel has its receiver; every
\* worker still in its closure holds a Receiver<Work> and a results sender,
\* and results_receiver is alive as long as one is; so in each step that
\* sends a Work or a WorkResult the channel's receiver was alive, whatever
\* became of the other workers.
C18_SendNeverFails ==
    /\ [](mainpc = "seed" => work_receivers = 1)
    /\ [](LiveWorkers # {} =>
              /\ work_receivers = Cardinality(LiveWorkers)
              /\ results_senders = Cardinality(LiveWorkers)
              /\ mainpc = "collect"
              /\ ResultsReceiverAlive)
    /\ [][/\ Len(queue') > Len(queue) =>
                 work_receivers >= 1 /\ work_receivers' >= 1
          /\ Len(results') > Len(results) =>
                 /\ ResultsReceiverAlive /\ ResultsReceiverAlive'
                 /\ \E w \in LiveWorkers : wpc'[w] = wpc[w] \/ wpc'[w] = "entries"
         ]_vars

\* C18's case: a worker has panicked and the other is about to take a File
\* from the channel and send its result
C18_Witness ==
    /\ \E w \in Workers : wpc[w] = "panicked"
    /\ \E w \in Workers : wpc[w] = "idle" /\ ENABLED HandleFileWork(w)
    /\ work_receivers = 1
    /\ ResultsReceiverAlive

RECURSIVE Under(_)
\* the path p and, when it is a directory, every path read_dir yields below it
Under(p) ==
    {p} \cup (IF is_dir(p) /\ ~is_symlink(p)
              THEN UNION {Under(e.path) : e \in {x \in Range(read_dir(p)) : ~x.err}}
              ELSE {})

\* the location descends from a root given for its side
FromRootOfSide(loc) ==
    \E i \in 1..NumRoots :
        /\ Accepted(i)
        /\ RootLocation(i).side = loc.side
        /\ loc.path \in Under(RootLocation(i).path)

\* C19: every Work in the channel or held by a worker, every WorkResult in
\* the results channel or printed, and every path of a bucket has the side of
\* a root it descends from; the Work and the results a worker sends while
\* expanding a directory have the directory's side, and the result of a File
\* has the File's location.
C19_SidePreserved ==
    /\ [](/\ \A i \in DOMAIN queue : FromRootOfSide(queue[i].path)
          /\ \A w \in Workers :
                wtask[w] # NoWork => FromRootOfSide(wtask[w].path)
          /\ \A i \in DOMAIN results : FromRootOfSide(results[i].path)
          /\ \A i \in DOMAIN diag : FromRootOfSide(diag[i].path)
          /\ \A side \in Sides : \A p \in PathsOfMap(Bucket(side)) :
                FromRootOfSide([side |-> side, path |-> p])
          /\ \A side \in Sides : \A p \in LocatedPaths(side) :
                FromRootOfSide([side |-> side, path |-> p]))
    /\ [][/\ \A w \in Workers :
                (wpc[w] = "entries" /\ widx'[w] # widx[w]) =>
                    /\ Len(queue') > Len(queue) =>
                          queue'[Len(queue')].path.side = wtask[w].path.side
                    /\ Len(results') > Len(results) =>
                          results'[Len(results')].path.side = wtask[w].path.side
          /\ (TakesHead /\ Len(results') > Len(results)) =>
                results'[Len(results')].path = Head(queue).path
         ]_vars

\* C19's case: the run of a left file against a right directory with a
\* subdirectory is over; the file below the subdirectory is in the right
\* bucket only and the left bucket holds the left root alone
C19_Witness ==
    /\ mainpc = "done"
    /\ args_left = << "b" >>
    /\ args_right = << "a" >>
    /\ "a/e/z" \in PathsOfMap(right)
    /\ PathsOfMap(left) = {"b"}

\* a worker thread has panicked
AnyPanicked == \E w \in Workers : wpc[w] = "panicked"

\* the collector loop is over: every worker has left its closure, the results
\* channel is closed and empty, and main is at, or past, the join loop
CollectorEnded ==
    /\ \A w \in Workers : wpc[w] \in {"done", "panicked"}
    /\ work_senders = 0
    /\ Disconnected(results, results_senders)
    /\ mainpc \in {"join", "panicked"}

\* C20: the step in which a worker panics drops the sender of the directory
\* it was expanding, its Receiver<Work> and its results sender; and under
\* fair scheduling, once a worker has panicked, every other worker leaves
\* its closure, the results channel closes, the collector loop ends and main
\* gets to the join loop, also when every worker has panicked.
C20_NoDeadlockAfterPanic ==
    /\ [][\A w \in Workers :
            (wpc[w] = "entries" /\ wpc'[w] = "panicked") =>
                /\ work_senders' + SendersIn(queue) - SendersIn(queue')
                      = work_senders - 1
                /\ work_receivers' = work_receivers - 1
                /\ results_senders' = results_senders - 1
         ]_vars
    /\ [](AnyPanicked => mainpc \in {"collect", "join", "panicked"})
    /\ AnyPanicked ~> CollectorEnded
    /\ (\A w \in Workers : wpc[w] = "panicked") ~> CollectorEnded

\* C20's case: every worker has panicked and main has left the collector
\* loop for the join loop
C20_Witness ==
    /\ \A w \in Workers : wpc[w] = "panicked"
    /\ mainpc = "join"
    /\ results_senders = 0

====
